---- MODULE Spec2Model ----
(***************************************************************************)
(* Model of the bfetch batch-processing route (BfetchServerPlugin):        *)
(* addStreamingResponseRoute / addBatchProcessingRoute / getResponseStream *)
(* in src/packages/kbn-securitysolution-grouping/src/helpers.ts.           *)
(*                                                                         *)
(* One request is modelled.  The JavaScript run-to-completion rule is kept:*)
(* the body of getResponseStream (the forEach over the batch) runs as one  *)
(* synchronous stretch, a handler's promise may settle at any moment after *)
(* the handler was invoked, and the continuation of an `await` runs as a   *)
(* microtask, first in first out, once the synchronous stretch has ended.  *)
(***************************************************************************)
EXTENDS Integers, Sequences, FiniteSets, TLC

\* Largest batch length explored.
MaxBatch == 3
\* The payloads a batch item may carry (opaque to the multiplexer).
Payload == {0, 1, 2}

\* What onBatchItem does with one payload: return a promise that resolves,
\* return a promise that rejects, or throw before returning a promise.
Modes == {"resolve", "reject", "throw"}

\* Sequences over S of length 0..n.
SeqUpTo(S, n) == UNION {[1..k -> S] : k \in 0..n}

\* The request bodies schema.any() lets through: a body with a batch array,
\* a body without a batch, a body whose batch is not an array.
Bodies ==
    {[shape |-> "array", batch |-> b] : b \in SeqUpTo(Payload, MaxBatch)}
    \cup {[shape |-> "missing", batch |-> <<>>],
          [shape |-> "notseq", batch |-> <<>>]}

VARIABLES
    body,        \* request.body
    mode,        \* the behaviour of handlerInstance.onBatchItem per payload
    pc,          \* "idle", "forEach", "returned", "failed"
    idx,         \* position of batch.forEach, 1-based
    cnt,         \* let cnt
    subject,     \* the rxjs Subject: records passed on, and its state
    promise,     \* per item: the promise onBatchItem returned
    invoked,     \* per item: how many times onBatchItem was called
    jobs,        \* microtask queue: suspended callbacks whose await is ready
    settleOrder, \* history: items in the order their handler settled
    valueOrCollection, \* firstNonNullValue: its argument
    fnnReturn,         \* firstNonNullValue: what the call returned, once made
    dataStreams,        \* getListHandler: the merged data stream info and stats
    lpc,                \* getListHandler: "idle", "stage1", "bulkGet", "tasks", "done"
    requests,           \* the three concurrent initial requests
    bulkGet,            \* the dashboards bulkGet
    dataStreamPromises, \* one async task per data stream
    aggregations,       \* history: the search response each task received
    packageMetadata,    \* the cache shared by the tasks
    fills,              \* history: writes to packageMetadata per package
    response            \* what the handler returned

bfetchVars == <<body, mode, pc, idx, cnt, subject, promise, invoked, jobs, settleOrder>>

fnnVars == <<valueOrCollection, fnnReturn>>

listVars == <<dataStreams, lpc, requests, bulkGet, dataStreamPromises,
              aggregations, packageMetadata, fills, response>>

vars == <<bfetchVars, fnnVars, listVars>>

----------------------------------------------------------------------------
\* The handler under test: an injective result per payload (as upper-casing
\* is), and the value it fails with.
onBatchItemResult(data) == data + 10
onBatchItemError(data) == data + 100

\* normalizeError: an ErrorLike with the failure's message.
normalizeError(err) == [message |-> err]

\* createNDJSONStream hands the request body to getResponseStream unchanged.
createNDJSONStream(data) == data

----------------------------------------------------------------------------
\* rxjs Subject: next() passes a value on unless the subject is stopped.
SubjectNew == [items |-> <<>>, state |-> "open"]

SubjectNext(s, v) ==
    IF s.state = "open" THEN [s EXCEPT !.items = Append(@, v)] ELSE s

SubjectComplete(s) ==
    IF s.state = "open" THEN [s EXCEPT !.state = "completed"] ELSE s

SubjectError(s) ==
    IF s.state = "open" THEN [s EXCEPT !.state = "errored"] ELSE s

----------------------------------------------------------------------------
\* `{ batch }` of a body with no batch, or batch.forEach of a non-array,
\* throws a TypeError out of getResponseStream.
ThrowsLenient(data) == FALSE
Throws(data) == data.shape # "array"

\* let cnt = batch.length
InitialCountShort(batch) == Len(batch) - 1
InitialCount(batch) == Len(batch)

\* forEach's second callback argument: the 0-based index.
ItemIdOneBased(i) == i
ItemId(i) == i - 1

\* forEach's first callback argument.
BatchItemLast(batch, i) == batch[Len(batch)]
BatchItem(batch, i) == batch[i]

\* handlerInstance.onBatchItem(batchItem) is called once.
InvokeWithRetry(inv, i) == [inv EXCEPT ![i] = @ + 2]
Invoke(inv, i) == [inv EXCEPT ![i] = @ + 1]

\* try: subject.next({ id, result })
TryBlockArrivalId(s, id, result) ==
    SubjectNext(s, [id |-> Len(s.items), result |-> result])
TryBlock(s, id, result) == SubjectNext(s, [id |-> id, result |-> result])

\* catch: subject.next({ id, error: normalizeError(err) })
CatchBlockEscalates(s, id, err) == SubjectError(s)
CatchBlock(s, id, err) ==
    SubjectNext(s, [id |-> id, error |-> normalizeError(err)])

\* finally: cnt--; if (!cnt) subject.complete()
FinallyBlockNoDecrement(s, c) == [cnt |-> c, subject |-> s]
FinallyBlockTwice(s, c) ==
    [cnt |-> c - 2,
     subject |-> IF c - 2 = 0 THEN SubjectComplete(s) ELSE s]
FinallyBlock(s, c) ==
    [cnt |-> c - 1,
     subject |-> IF c - 1 = 0 THEN SubjectComplete(s) ELSE s]

\* The reaction of an await is appended to the microtask queue.
Enqueue(q, i) == Append(q, i)

----------------------------------------------------------------------------
\* firstNonNullValue (ECSField<T> = T | null | undefined | Array<T | null>).

\* Largest array given to firstNonNullValue.
MaxArrayLen == 3

\* Scalar field values; 0 stands for the falsy ones (0, '', false).
FieldValues == {0, 1, 2}

Null == [t |-> "null"]

Undefined == [t |-> "undefined"]

Scalars == {[t |-> "value", v |-> x] : x \in FieldValues}

ECSFields ==
    {Null, Undefined} \cup Scalars
    \cup {[t |-> "array", a |-> a] : a \in SeqUpTo(Scalars \cup {Null}, MaxArrayLen)}

\* for (const value of valueOrCollection) { if (value !== null) return value }
\* and, with the loop over, the end of the function: undefined.
RECURSIVE ForOfTruthy(_, _)
ForOfTruthy(a, k) ==
    IF k > Len(a) THEN Undefined
    ELSE IF a[k].t = "value" /\ a[k].v # 0 THEN a[k]
    ELSE ForOfTruthy(a, k + 1)

RECURSIVE ForOf(_, _)
ForOf(a, k) ==
    IF k > Len(a) THEN Undefined
    ELSE IF a[k].t # "null" THEN a[k]
    ELSE ForOf(a, k + 1)

firstNonNullValue(x) ==
    IF x.t = "null" THEN Undefined
    ELSE IF x.t = "array" THEN ForOf(x.a, 1)
    ELSE x

NotCalled == [t |-> "notCalled"]

FnnIdle ==
    /\ valueOrCollection = Null
    /\ fnnReturn = NotCalled

----------------------------------------------------------------------------
\* getListHandler (fleet data streams route).

\* Largest number of data streams returned by Elasticsearch.
MaxStreams == 2

\* maximum_timestamp values of the stats response.
Timestamps == {1, 2}

\* _meta.package.name of a data stream; "" when it has none.  Packages "a"
\* and "b" have a saved object (installed through EPM), "c" has none.
PackageNames == {"a", "b", "c"}

InstalledPackages == {"a", "b"}

StreamInputs == [package : PackageNames \cup {""}, maximum_timestamp : Timestamps]

\* packageSavedObjectsByName[pkgName].attributes.version
PackageVersion(pkgName) == IF pkgName = "a" THEN "1.0.0" ELSE "2.0.0"

\* dashboardIdsByPackageName[pkgName]
DashboardIds(pkgName) == IF pkgName = "a" THEN <<"d1", "d2", "d3">> ELSE <<>>

\* allDashboardSavedObjectsById: "d1" has a title, "d2" has none, "d3" was
\* not returned by bulkGet.
DashboardFound(id) == id \in {"d1", "d2"}

DashboardTitle(id) == IF id = "d1" THEN "Overview" ELSE ""

\* packageDashboardIds.reduce(...): the dashboards found, titled by their
\* title or else by their id.
RECURSIVE PackageDashboards(_)
PackageDashboards(ids) ==
    IF ids = <<>> THEN <<>>
    ELSE LET id == Head(ids)
             rest == PackageDashboards(Tail(ids))
         IN  IF DashboardFound(id)
             THEN <<[id |-> id,
                     title |-> IF DashboardTitle(id) # "" THEN DashboardTitle(id) ELSE id]>>
                  \o rest
             ELSE rest

\* What the terms aggregations of one search give: buckets[0]?.key || ''.
Keys == {"", "k"}

Aggregations == [dataset : Keys, namespace : Keys, type : Keys]

NoAggregations == [dataset |-> "none", namespace |-> "none", type |-> "none"]

\* const dataStreamResponse: DataStream = { ... }
NewDataStreamResponse(i, dataStream) ==
    [index |-> i,
     dataset |-> "",
     namespace |-> "",
     type |-> "",
     package |-> dataStream.package,
     package_version |-> "",
     last_activity_ms |-> dataStream.maximum_timestamp,
     dashboards |-> <<>>]

\* Set values from backing indices query
SetFromSearch(r, agg) ==
    [r EXCEPT !.dataset = agg.dataset,
              !.namespace = agg.namespace,
              !.type = agg.type]

NoMetadata == [set |-> FALSE, version |-> "", dashboards |-> <<>>]

\* const pkgSavedObject = pkgName ? packageSavedObjectsByName[pkgName] : null
HasSavedObject(pkgName) == pkgName \in InstalledPackages

\* if (!packageMetadata[pkgName])
NeedsMetadataAlways(cache, pkgName) == TRUE
NeedsMetadata(cache, pkgName) == ~cache[pkgName].set

\* packageMetadata[pkgName] = { version, dashboards: packageDashboards }
NewMetadata(pkgName) ==
    [set |-> TRUE,
     version |-> PackageVersion(pkgName),
     dashboards |-> PackageDashboards(DashboardIds(pkgName))]

\* The part of a task after its await: from the search response to the
\* returned dataStreamResponse, with the cache as it leaves it.
ResumeTask(r, agg, cache) ==
    LET r1 == SetFromSearch(r, agg)
        pkgName == r1.package
    IN  IF HasSavedObject(pkgName)
        THEN LET fill == NeedsMetadata(cache, pkgName)
                 cache1 == IF fill
                           THEN [cache EXCEPT ![pkgName] = NewMetadata(pkgName)]
                           ELSE cache
             IN  [value |-> [r1 EXCEPT !.package_version = cache1[pkgName].version,
                                       !.dashboards = cache1[pkgName].dashboards],
                  cache |-> cache1,
                  filled |-> IF fill THEN {pkgName} ELSE {}]
        ELSE [value |-> r1, cache |-> cache, filled |-> {}]

\* .filter(({ dataset, namespace, type }) => dataset && namespace && type)
KeepStreamNoType(r) == r.dataset # "" /\ r.namespace # ""
KeepStream(r) == r.dataset # "" /\ r.namespace # "" /\ r.type # ""

\* .sort((a, b) => b.last_activity_ms - a.last_activity_ms)
CompareAscending(a, b) == a.last_activity_ms - b.last_activity_ms
Compare(a, b) == b.last_activity_ms - a.last_activity_ms

\* Array.prototype.sort, a stable sort: x goes behind every element that the
\* comparator does not put after it.
RECURSIVE Insert(_, _)
Insert(x, sorted) ==
    IF sorted = <<>> THEN <<x>>
    ELSE IF Compare(Head(sorted), x) <= 0
         THEN <<Head(sorted)>> \o Insert(x, Tail(sorted))
         ELSE <<x>> \o sorted

RECURSIVE Sort(_)
Sort(list) ==
    IF list = <<>> THEN <<>>
    ELSE Insert(list[Len(list)], Sort(SubSeq(list, 1, Len(list) - 1)))

\* Promise.all(dataStreamPromises): rejected as soon as one task is,
\* resolved when all are.
PromiseAllSettled(ps) ==
    IF \A i \in DOMAIN ps : ps[i].st # "awaiting" THEN "resolved" ELSE "pending"
PromiseAll(ps) ==
    IF \E i \in DOMAIN ps : ps[i].st = "rejected" THEN "rejected"
    ELSE IF \A i \in DOMAIN ps : ps[i].st = "resolved" THEN "resolved"
    ELSE "pending"

\* The value Promise.all resolves with: the tasks' values in input order.
ValuesOf(ps) == [i \in DOMAIN ps |-> ps[i].value]

\* response.ok({ body }) and defaultIngestErrorHandler({ error, response })
NoResponse == [kind |-> "none", data_streams |-> <<>>]

ResponseOk(values) ==
    [kind |-> "ok", data_streams |-> Sort(SelectSeq(values, KeepStream))]

defaultIngestErrorHandler == [kind |-> "error", data_streams |-> <<>>]

RequestNames == {"info", "stats", "packages"}

ListIdle ==
    /\ dataStreams = <<>>
    /\ lpc = "idle"
    /\ requests = [r \in RequestNames |-> "none"]
    /\ bulkGet = "none"
    /\ dataStreamPromises = <<>>
    /\ aggregations = <<>>
    /\ packageMetadata = [p \in InstalledPackages |-> NoMetadata]
    /\ fills = [p \in InstalledPackages |-> 0]
    /\ response = NoResponse

----------------------------------------------------------------------------
N == Len(body.batch)

Init ==
    /\ body \in Bodies
    /\ mode \in [Payload -> Modes]
    /\ pc = "idle"
    /\ idx = 1
    /\ cnt = 0
    /\ subject = SubjectNew
    /\ promise = <<>>
    /\ invoked = <<>>
    /\ jobs = <<>>
    /\ settleOrder = <<>>
    /\ FnnIdle
    /\ ListIdle

\* The route handler passes request.body on; getResponseStream creates the
\* subject and the countdown and enters batch.forEach.
Call ==
    /\ pc = "idle"
    /\ ~Throws(createNDJSONStream(body))
    /\ pc' = "forEach"
    /\ idx' = 1
    /\ cnt' = InitialCount(body.batch)
    /\ subject' = SubjectNew
    /\ promise' = [i \in 1..N |-> [st |-> "none", val |-> 0]]
    /\ invoked' = [i \in 1..N |-> 0]
    /\ UNCHANGED <<body, mode, jobs, settleOrder>>
    /\ UNCHANGED <<fnnVars, listVars>>

\* The same call on a malformed body: the TypeError leaves getResponseStream,
\* createNDJSONStream and the route handler; nothing was dispatched.
CallThrows ==
    /\ pc = "idle"
    /\ Throws(createNDJSONStream(body))
    /\ pc' = "failed"
    /\ UNCHANGED <<body, mode, idx, cnt, subject, promise, invoked, jobs, settleOrder>>
    /\ UNCHANGED <<fnnVars, listVars>>

\* One iteration of batch.forEach: the async callback runs up to its await.
\* A handler that throws before returning a promise is caught at once: the
\* catch and finally blocks run inside this iteration.
ForEachItem ==
    /\ pc = "forEach"
    /\ idx <= N
    /\ LET data == BatchItem(body.batch, idx)
           id == ItemId(idx)
       IN  /\ invoked' = Invoke(invoked, idx)
           /\ IF mode[data] = "throw"
              THEN LET s1 == CatchBlock(subject, id, onBatchItemError(data))
                       f == FinallyBlock(s1, cnt)
                   IN  /\ subject' = f.subject
                       /\ cnt' = f.cnt
                       /\ promise' = [promise EXCEPT ![idx] =
                                         [st |-> "thrown", val |-> onBatchItemError(data)]]
                       /\ settleOrder' = Append(settleOrder, idx)
              ELSE /\ promise' = [promise EXCEPT ![idx] =
                                     [st |-> "pending",
                                      val |-> IF mode[data] = "resolve"
                                              THEN onBatchItemResult(data)
                                              ELSE onBatchItemError(data)]]
                   /\ UNCHANGED <<subject, cnt, settleOrder>>
    /\ idx' = idx + 1
    /\ UNCHANGED <<body, mode, pc, jobs>>
    /\ UNCHANGED <<fnnVars, listVars>>

\* return subject
Return ==
    /\ pc = "forEach"
    /\ idx > N
    /\ pc' = "returned"
    /\ UNCHANGED <<body, mode, idx, cnt, subject, promise, invoked, jobs, settleOrder>>
    /\ UNCHANGED <<fnnVars, listVars>>

\* The promise returned for item i settles; the suspended callback becomes a
\* microtask.  (A promise that is already settled when it is returned is one
\* that settles before the next iteration.)
Settle(i) ==
    /\ pc \in {"forEach", "returned"}
    /\ i \in DOMAIN promise
    /\ promise[i].st = "pending"
    /\ promise' = [promise EXCEPT ![i].st =
                      IF mode[BatchItem(body.batch, i)] = "resolve"
                      THEN "resolved" ELSE "rejected"]
    /\ jobs' = Enqueue(jobs, i)
    /\ settleOrder' = Append(settleOrder, i)
    /\ UNCHANGED <<body, mode, pc, idx, cnt, subject, invoked>>
    /\ UNCHANGED <<fnnVars, listVars>>

\* The first microtask runs: the callback resumes after its await, runs the
\* rest of try or the catch block, then the finally block.
Continuation ==
    /\ pc = "returned"
    /\ jobs # <<>>
    /\ LET i == Head(jobs)
           id == ItemId(i)
           s1 == IF promise[i].st = "resolved"
                 THEN TryBlock(subject, id, promise[i].val)
                 ELSE CatchBlock(subject, id, promise[i].val)
           f == FinallyBlock(s1, cnt)
       IN  /\ subject' = f.subject
           /\ cnt' = f.cnt
    /\ jobs' = Tail(jobs)
    /\ UNCHANGED <<body, mode, pc, idx, promise, invoked, settleOrder>>
    /\ UNCHANGED <<fnnVars, listVars>>

Next ==
    \/ Call
    \/ CallThrows
    \/ ForEachItem
    \/ Return
    \/ \E i \in 1..MaxBatch : Settle(i)
    \/ Continuation

Spec == Init /\ [][Next]_vars

\* The synchronous stretch and the microtask queue always run on; that every
\* handler's promise settles is the premise of the eventual-closure claim.
FairSpec ==
    /\ Spec
    /\ WF_vars(Call)
    /\ WF_vars(ForEachItem)
    /\ WF_vars(Return)
    /\ WF_vars(\E i \in 1..MaxBatch : Settle(i))
    /\ WF_vars(Continuation)

----------------------------------------------------------------------------
\* firstNonNullValue applied to every field value within the bounds.
BfetchIdle ==
    /\ body = [shape |-> "missing", batch |-> <<>>]
    /\ mode = [d \in Payload |-> "resolve"]
    /\ pc = "idle"
    /\ idx = 1
    /\ cnt = 0
    /\ subject = SubjectNew
    /\ promise = <<>>
    /\ invoked = <<>>
    /\ jobs = <<>>
    /\ settleOrder = <<>>

FnnInit ==
    /\ valueOrCollection \in ECSFields
    /\ fnnReturn = NotCalled
    /\ BfetchIdle
    /\ ListIdle

CallFirstNonNullValue ==
    /\ fnnReturn = NotCalled
    /\ fnnReturn' = firstNonNullValue(valueOrCollection)
    /\ UNCHANGED <<valueOrCollection, bfetchVars, listVars>>

FnnNext == CallFirstNonNullValue

FnnSpec == FnnInit /\ [][FnnNext]_vars

----------------------------------------------------------------------------
\* getListHandler: one request.  Every await is a point where the other
\* pending requests and tasks may settle first.
ListInit ==
    /\ dataStreams \in SeqUpTo(StreamInputs, MaxStreams)
    /\ lpc = "idle"
    /\ requests = [r \in RequestNames |-> "none"]
    /\ bulkGet = "none"
    /\ dataStreamPromises = <<>>
    /\ aggregations = <<>>
    /\ packageMetadata = [p \in InstalledPackages |-> NoMetadata]
    /\ fills = [p \in InstalledPackages |-> 0]
    /\ response = NoResponse
    /\ BfetchIdle
    /\ FnnIdle

\* The handler is entered: the three requests of the first Promise.all go out.
GetListHandler ==
    /\ lpc = "idle"
    /\ lpc' = "stage1"
    /\ requests' = [r \in RequestNames |-> "pending"]
    /\ UNCHANGED <<dataStreams, bulkGet, dataStreamPromises, aggregations,
                   packageMetadata, fills, response>>
    /\ UNCHANGED <<bfetchVars, fnnVars>>

\* One of the three requests fails: Promise.all rejects at the first failure
\* and the catch block returns the error response.
RequestFails(r) ==
    /\ requests[r] = "pending"
    /\ requests' = [requests EXCEPT ![r] = "failed"]
    /\ IF response = NoResponse
       THEN response' = defaultIngestErrorHandler /\ lpc' = "done"
       ELSE UNCHANGED <<response, lpc>>
    /\ UNCHANGED <<dataStreams, bulkGet, dataStreamPromises, aggregations,
                   packageMetadata, fills>>
    /\ UNCHANGED <<bfetchVars, fnnVars>>

\* One of the three requests succeeds; with the third success the handler
\* goes on to the dashboards bulkGet.
RequestSucceeds(r) ==
    /\ requests[r] = "pending"
    /\ requests' = [requests EXCEPT ![r] = "ok"]
    /\ IF \A q \in RequestNames : requests'[q] = "ok"
       THEN lpc' = "bulkGet" /\ bulkGet' = "pending"
       ELSE UNCHANGED <<lpc, bulkGet>>
    /\ UNCHANGED <<dataStreams, dataStreamPromises, aggregations,
                   packageMetadata, fills, response>>
    /\ UNCHANGED <<bfetchVars, fnnVars>>

BulkGetFails ==
    /\ bulkGet = "pending"
    /\ bulkGet' = "failed"
    /\ response' = defaultIngestErrorHandler
    /\ lpc' = "done"
    /\ UNCHANGED <<dataStreams, requests, dataStreamPromises, aggregations,
                   packageMetadata, fills>>
    /\ UNCHANGED <<bfetchVars, fnnVars>>

\* bulkGet succeeds: dataStreamNames.map starts one task per data stream,
\* each running up to its search; with no data stream Promise.all resolves
\* with [] and the handler answers.
BulkGetSucceeds ==
    /\ bulkGet = "pending"
    /\ bulkGet' = "ok"
    /\ dataStreamPromises' =
          [i \in DOMAIN dataStreams |->
              [st |-> "awaiting", value |-> NewDataStreamResponse(i, dataStreams[i])]]
    /\ aggregations' = [i \in DOMAIN dataStreams |-> NoAggregations]
    /\ IF PromiseAll(dataStreamPromises') = "resolved"
       THEN response' = ResponseOk(ValuesOf(dataStreamPromises')) /\ lpc' = "done"
       ELSE response' = response /\ lpc' = "tasks"
    /\ UNCHANGED <<dataStreams, requests, packageMetadata, fills>>
    /\ UNCHANGED <<bfetchVars, fnnVars>>

\* The search of task i fails: the task rejects, and so does Promise.all
\* unless the handler has answered already.
SearchFails(i) ==
    /\ i \in DOMAIN dataStreamPromises
    /\ dataStreamPromises[i].st = "awaiting"
    /\ dataStreamPromises' = [dataStreamPromises EXCEPT ![i].st = "rejected"]
    /\ IF response = NoResponse /\ PromiseAll(dataStreamPromises') = "rejected"
       THEN response' = defaultIngestErrorHandler /\ lpc' = "done"
       ELSE UNCHANGED <<response, lpc>>
    /\ UNCHANGED <<dataStreams, requests, bulkGet, aggregations, packageMetadata, fills>>
    /\ UNCHANGED <<bfetchVars, fnnVars>>

\* The search of task i answers: the task runs from its await to its return
\* in one stretch; when it was the last one, Promise.all resolves and the
\* handler filters, sorts and answers.
SearchSucceeds(i, agg) ==
    /\ i \in DOMAIN dataStreamPromises
    /\ dataStreamPromises[i].st = "awaiting"
    /\ LET t == ResumeTask(dataStreamPromises[i].value, agg, packageMetadata)
       IN  /\ dataStreamPromises' =
                 [dataStreamPromises EXCEPT ![i] = [st |-> "resolved", value |-> t.value]]
           /\ packageMetadata' = t.cache
           /\ fills' = [p \in InstalledPackages |->
                           IF p \in t.filled THEN fills[p] + 1 ELSE fills[p]]
    /\ aggregations' = [aggregations EXCEPT ![i] = agg]
    /\ IF response = NoResponse /\ PromiseAll(dataStreamPromises') = "resolved"
       THEN response' = ResponseOk(ValuesOf(dataStreamPromises')) /\ lpc' = "done"
       ELSE UNCHANGED <<response, lpc>>
    /\ UNCHANGED <<dataStreams, requests, bulkGet>>
    /\ UNCHANGED <<bfetchVars, fnnVars>>

ListNext ==
    \/ GetListHandler
    \/ \E r \in RequestNames : RequestFails(r)
    \/ \E r \in RequestNames : RequestSucceeds(r)
    \/ BulkGetFails
    \/ BulkGetSucceeds
    \/ \E i \in 1..MaxStreams : SearchFails(i)
    \/ \E i \in 1..MaxStreams, agg \in Aggregations : SearchSucceeds(i, agg)

ListSpec == ListInit /\ [][ListNext]_vars

----------------------------------------------------------------------------
\* Vocabulary of the properties.

Items == subject.items

\* Item i (1-based position in the batch) of a well-formed request.
ItemSet == 1..N

Fails(i) == mode[body.batch[i]] # "resolve"

HasRecord(i) == \E k \in 1..Len(Items) : Items[k].id = i - 1

EmitPos(i) == CHOOSE k \in 1..Len(Items) : Items[k].id = i - 1

IsResult(r) == "result" \in DOMAIN r /\ "error" \notin DOMAIN r

IsError(r) == "error" \in DOMAIN r /\ "result" \notin DOMAIN r

HasSettled(i) == \E k \in 1..Len(settleOrder) : settleOrder[k] = i

SettlePos(i) == CHOOSE k \in 1..Len(settleOrder) : settleOrder[k] = i

Dispatched == pc \in {"forEach", "returned"}

\* Every handler has settled and every completion callback has run.
Quiescent ==
    /\ pc = "returned"
    /\ \A i \in ItemSet : promise[i].st \in {"resolved", "rejected", "thrown"}
    /\ jobs = <<>>

ExactlyOneFails(k) == Fails(k) /\ \A i \in ItemSet \ {k} : ~Fails(i)

----------------------------------------------------------------------------
\* C1: every emitted record has an id in [0, N), no id is emitted twice, and
\* once all N handlers have settled and their callbacks have run exactly N
\* records have been emitted, their ids covering [0, N).
C1_UniqueIdsInRange ==
    /\ \A k \in 1..Len(Items) : Items[k].id \in 0..(N - 1)
    /\ \A k1, k2 \in 1..Len(Items) : Items[k1].id = Items[k2].id => k1 = k2
    /\ Quiescent =>
          /\ Len(Items) = N
          /\ {Items[k].id : k \in 1..Len(Items)} = 0..(N - 1)

C1_Witness ==
    /\ Quiescent
    /\ N >= 2
    /\ \E k \in 1..Len(Items) : IsResult(Items[k])
    /\ \E k \in 1..Len(Items) : IsError(Items[k])

\* C2: for a batch of size 0 the returned stream is completed, with no
\* records.  (The code completes the subject only in an item's finally block.)
C2_EmptyBatchClosed ==
    (pc = "returned" /\ N = 0) => (subject.state = "completed" /\ Items = <<>>)

\* C3: when exactly item k fails (by throwing or by rejecting) and the others
\* succeed, exactly one record has id k and it carries an error, every other
\* item has exactly one record and it carries a result, every handler was
\* run, and the subject never goes into its error state.
C3_FailureIsolation ==
    /\ subject.state # "errored"
    /\ pc = "returned" => \A i \in ItemSet : invoked[i] >= 1
    /\ \A k \in ItemSet :
          (ExactlyOneFails(k) /\ Quiescent) =>
             /\ Len(Items) = N
             /\ \A i \in ItemSet :
                   /\ HasRecord(i)
                   /\ \A m \in 1..Len(Items) : Items[m].id = i - 1 => m = EmitPos(i)
                   /\ IF i = k THEN IsError(Items[EmitPos(i)])
                               ELSE IsResult(Items[EmitPos(i)])

C3_Witness ==
    /\ Quiescent
    /\ N >= 2
    /\ \E k \in ItemSet : ExactlyOneFails(k) /\ IsError(Items[EmitPos(k)])

\* C4: if the handler of j settles before the handler of i, the record of j
\* is emitted before the record of i.
C4_EmissionOrderIsCompletionOrder ==
    \A i, j \in ItemSet :
        (HasSettled(i) /\ HasSettled(j) /\ SettlePos(j) < SettlePos(i) /\ HasRecord(i))
           => (HasRecord(j) /\ EmitPos(j) < EmitPos(i))

\* C5: onBatchItem has been invoked for all N items before the call returns
\* and before any item's completion is processed.
C5_AllInvokedBeforeAnyCompletion ==
    (Dispatched /\ (pc = "returned" \/ Items # <<>> \/ cnt # N))
       => \A i \in ItemSet : invoked[i] >= 1

\* C6: for a batch of size N >= 1 whose handlers all settle, the stream is
\* eventually completed, and it is completed by the step that emits the N-th
\* record.
C6_EventualClosure ==
    /\ [](Dispatched /\ N >= 1 /\ Len(Items) = N => subject.state = "completed")
    /\ (pc = "forEach" /\ N >= 1) ~> (subject.state = "completed")

C6_Witness ==
    /\ subject.state = "completed"
    /\ N >= 2
    /\ \E k \in 1..Len(Items) : IsResult(Items[k])
    /\ \E k \in 1..Len(Items) : IsError(Items[k])

\* C7: a completed stream means that every item was dispatched, has settled
\* and has had its record emitted, and that no callback is left to emit
\* anything; while an item is outstanding the stream stays open.
C7_NoEarlyClose ==
    /\ subject.state = "completed" =>
          /\ Dispatched
          /\ idx > N
          /\ \A i \in ItemSet :
                promise[i].st \in {"resolved", "rejected", "thrown"} /\ HasRecord(i)
          /\ jobs = <<>>
          /\ Len(Items) = N
          /\ cnt = 0
    /\ (Dispatched /\ \E i \in ItemSet : promise[i].st \in {"none", "pending"})
          => subject.state = "open"

C7_Witness ==
    /\ subject.state = "completed"
    /\ N >= 2
    /\ \E i \in ItemSet : promise[i].st = "thrown"
    /\ \E i \in ItemSet : promise[i].st = "rejected"

\* C8: onBatchItem is invoked exactly once per item, failed or not: never
\* twice, and once for every item by the time the call has returned.
C8_NoRetry ==
    /\ \A i \in DOMAIN invoked : invoked[i] <= 1
    /\ Dispatched => \A i \in ItemSet : (i < idx <=> invoked[i] = 1)
    /\ pc = "returned" => \A i \in ItemSet : invoked[i] = 1

C8_Witness ==
    /\ Quiescent
    /\ N >= 2
    /\ \E i \in ItemSet : Fails(i) /\ invoked[i] = 1 /\ HasRecord(i)

\* C9: the record with id i of a succeeding item carries the value the
\* handler returned for batch[i]; once everything has run, the records taken
\* by id give the results in input order.
C9_IdPayloadCorrespondence ==
    /\ \A k \in 1..Len(Items) :
          IsResult(Items[k]) =>
             /\ Items[k].id + 1 \in ItemSet
             /\ ~Fails(Items[k].id + 1)
             /\ Items[k].result = onBatchItemResult(body.batch[Items[k].id + 1])
    /\ Quiescent =>
          \A i \in ItemSet :
             ~Fails(i) =>
                /\ HasRecord(i)
                /\ Items[EmitPos(i)] =
                      [id |-> i - 1, result |-> onBatchItemResult(body.batch[i])]

C9_Witness ==
    /\ Quiescent
    /\ body.batch = <<0, 1, 2>>
    /\ \A i \in ItemSet : ~Fails(i)
    /\ Items[1].id = 2
    /\ {Items[k] : k \in 1..Len(Items)} =
          {[id |-> 0, result |-> 10], [id |-> 1, result |-> 11], [id |-> 2, result |-> 12]}

C15_NoEmissionBeforeReturn ==
    pc = "forEach" => (Items = <<>> /\ subject.state = "open")

\* C16: what a run has emitted and whether the stream is closed depend only
\* on the batch, the handler and the set of items whose callback has run, not
\* on the order in which they ran: the record of item i is the one record
\* the handler's behaviour on batch[i] determines, and the stream is closed
\* exactly when all N >= 1 items have their record.
ExpectedRecord(i) ==
    IF Fails(i)
    THEN [id |-> i - 1, error |-> [message |-> onBatchItemError(body.batch[i])]]
    ELSE [id |-> i - 1, result |-> onBatchItemResult(body.batch[i])]

C16_InterleavingIndependence ==
    Dispatched =>
       /\ \A k \in 1..Len(Items) :
             /\ Items[k].id + 1 \in ItemSet
             /\ Items[k] = ExpectedRecord(Items[k].id + 1)
       /\ (subject.state = "completed") <=>
             (N >= 1 /\ \A i \in ItemSet : HasRecord(i))
       /\ Quiescent =>
             /\ {Items[k] : k \in 1..Len(Items)} = {ExpectedRecord(i) : i \in ItemSet}
             /\ subject.state = IF N >= 1 THEN "completed" ELSE "open"

\* Two completion orders of the same batch are both reachable: here the
\* records came out in reverse input order.
C16_Witness ==
    /\ Quiescent
    /\ N = 3
    /\ \A i \in ItemSet : ~Fails(i)
    /\ Items[1].id = 2 /\ Items[2].id = 1 /\ Items[3].id = 0

\* C12: firstNonNullValue returns undefined for null and for undefined, the
\* input itself for a non-null scalar, and for an array its first element
\* that is not null, or undefined when there is none.  It always returns.
NonNullAt(a) == {k \in 1..Len(a) : a[k] # Null}

C12_FirstNonNullValue ==
    fnnReturn # NotCalled =>
       LET x == valueOrCollection
       IN  /\ fnnReturn.t \in {"undefined", "value"}
           /\ x.t \in {"null", "undefined"} => fnnReturn = Undefined
           /\ x.t = "value" => fnnReturn = x
           /\ x.t = "array" =>
                 IF NonNullAt(x.a) = {}
                 THEN fnnReturn = Undefined
                 ELSE \E k \in NonNullAt(x.a) :
                         /\ \A j \in NonNullAt(x.a) : k <= j
                         /\ fnnReturn = x.a[k]

\* [null, 0, 1]: the falsy 0 is the first non-null element.
C12_Witness ==
    /\ valueOrCollection =
          [t |-> "array",
           a |-> <<Null, [t |-> "value", v |-> 0], [t |-> "value", v |-> 1]>>]
    /\ fnnReturn = [t |-> "value", v |-> 0]

----------------------------------------------------------------------------
\* Vocabulary of the getListHandler properties.

Streams == DOMAIN dataStreams

\* The search of data stream i has answered with all three keys non-empty.
Complete(i) ==
    /\ i \in DOMAIN aggregations
    /\ aggregations[i] \in Aggregations
    /\ aggregations[i].dataset # ""
    /\ aggregations[i].namespace # ""
    /\ aggregations[i].type # ""

Listed == response.data_streams

Resolved(i) == i \in DOMAIN dataStreamPromises /\ dataStreamPromises[i].st = "resolved"

SomethingFailed ==
    \/ \E r \in RequestNames : requests[r] = "failed"
    \/ bulkGet = "failed"
    \/ \E i \in DOMAIN dataStreamPromises : dataStreamPromises[i].st = "rejected"

\* C13: a success response lists exactly the data streams whose dataset,
\* namespace and type are all non-empty, each once, sorted by
\* last_activity_ms in descending order; equal times keep the input order,
\* so the list does not depend on the order in which the searches answered.
C13_FilteredAndSorted ==
    response.kind = "ok" =>
       /\ \A k \in 1..Len(Listed) :
             /\ Listed[k].index \in Streams
             /\ Complete(Listed[k].index)
             /\ Listed[k].dataset = aggregations[Listed[k].index].dataset
             /\ Listed[k].namespace = aggregations[Listed[k].index].namespace
             /\ Listed[k].type = aggregations[Listed[k].index].type
             /\ Listed[k].last_activity_ms = dataStreams[Listed[k].index].maximum_timestamp
       /\ \A i \in Streams :
             Complete(i) <=> (\E k \in 1..Len(Listed) : Listed[k].index = i)
       /\ \A k1, k2 \in 1..Len(Listed) :
             Listed[k1].index = Listed[k2].index => k1 = k2
       /\ \A k \in 1..(Len(Listed) - 1) :
             /\ Listed[k].last_activity_ms >= Listed[k + 1].last_activity_ms
             /\ Listed[k].last_activity_ms = Listed[k + 1].last_activity_ms
                   => Listed[k].index < Listed[k + 1].index

\* The later data stream is the more recent one and comes first.
C13_Witness ==
    /\ response.kind = "ok"
    /\ Len(dataStreams) = 2
    /\ dataStreams[1].maximum_timestamp < dataStreams[2].maximum_timestamp
    /\ Len(Listed) = 2
    /\ Listed[1].index = 2

\* C14: a success response is sent only when the three initial requests, the
\* bulkGet and every search succeeded, and it then lists every data stream
\* that passes the filter; as soon as anything has failed the response is
\* the one of defaultIngestErrorHandler.
C14_AllOrNothing ==
    /\ response.kind = "ok" =>
          /\ \A r \in RequestNames : requests[r] = "ok"
          /\ bulkGet = "ok"
          /\ DOMAIN dataStreamPromises = Streams
          /\ \A i \in Streams : Resolved(i)
          /\ Len(Listed) = Cardinality({i \in Streams : Complete(i)})
    /\ SomethingFailed => response = defaultIngestErrorHandler
    /\ response.kind = "error" => (SomethingFailed /\ Listed = <<>>)

\* One search failed after another had already delivered a listable stream.
C14_Witness ==
    /\ response = defaultIngestErrorHandler
    /\ \E i, j \in Streams :
          /\ Resolved(i) /\ Complete(i)
          /\ dataStreamPromises[j].st = "rejected"

\* C17: packageMetadata is written at most once per package, whatever the
\* order of the tasks; every data stream of an installed package reports that
\* package's version and dashboards (so two of the same package agree), and
\* a data stream whose package has no saved object keeps '' and [].
C17_MetadataOncePerPackage ==
    /\ \A p \in InstalledPackages :
          /\ fills[p] <= 1
          /\ packageMetadata[p].set <=> fills[p] = 1
    /\ \A i \in Streams :
          Resolved(i) =>
             LET v == dataStreamPromises[i].value
                 p == dataStreams[i].package
             IN  IF p \in InstalledPackages
                 THEN /\ fills[p] = 1
                      /\ v.package_version = PackageVersion(p)
                      /\ v.dashboards = PackageDashboards(DashboardIds(p))
                 ELSE /\ v.package_version = ""
                      /\ v.dashboards = <<>>
    /\ \A i, j \in Streams :
          (Resolved(i) /\ Resolved(j) /\ dataStreams[i].package = dataStreams[j].package)
             => /\ dataStreamPromises[i].value.package_version =
                      dataStreamPromises[j].value.package_version
                /\ dataStreamPromises[i].value.dashboards =
                      dataStreamPromises[j].value.dashboards
    /\ \A k \in 1..Len(Listed) :
          Listed[k] = dataStreamPromises[Listed[k].index].value

\* Two data streams of package "a" in one success response.
C17_Witness ==
    /\ response.kind = "ok"
    /\ Len(Listed) = 2
    /\ Listed[1].package = "a" /\ Listed[2].package = "a"
    /\ Listed[1].dashboards = <<[id |-> "d1", title |-> "Overview"],
                                [id |-> "d2", title |-> "d2"]>>
    /\ fills["a"] = 1

====
